---- MODULE Spec2Model ----
(***************************************************************************)
(* Model of profiler/profile.go: the ProfileType registry, the runProfile  *)
(* dispatcher, the seven collection strategies and the conversion of a     *)
(* goroutine debug=2 dump into a pprof profile graph.                      *)
(***************************************************************************)
EXTENDS Integers, Sequences, FiniteSets, TLC

(***************************************************************************)
(* ProfileType constants (iota block).                                     *)
(***************************************************************************)
HeapProfile == 0
CPUProfile == 1
BlockProfile == 2
MutexProfile == 3
GoroutineProfile == 4
GoroutineWaitProfile == 5
MetricsProfile == 6

\* How many values below HeapProfile and above MetricsProfile are tried.
OutOfRange == 1

Supported == HeapProfile..MetricsProfile
TypeInputs == (HeapProfile - OutOfRange)..(MetricsProfile + OutOfRange)

\* func (t ProfileType) String() string
String(t) ==
  CASE t = HeapProfile -> "heap"
    [] t = CPUProfile -> "cpu"
    [] t = MutexProfile -> "mutex"
    [] t = BlockProfile -> "block"
    [] t = GoroutineProfile -> "goroutine"
    [] t = GoroutineWaitProfile -> "goroutinewait"
    [] t = MetricsProfile -> "metrics"
    [] OTHER -> "unknown"

\* Filename with the goroutine entries answering String() plus ".pprof".
FilenameFromString(t) ==
  CASE t = MetricsProfile -> "metrics.json"
    [] t \in Supported \ {MetricsProfile} -> String(t) \o ".pprof"
    [] OTHER -> "unknown"

\* func (t ProfileType) Filename() string
Filename(t) ==
  CASE t = HeapProfile -> "heap.pprof"
    [] t = CPUProfile -> "cpu.pprof"
    [] t = MutexProfile -> "mutex.pprof"
    [] t = BlockProfile -> "block.pprof"
    [] t = GoroutineProfile -> "goroutines.pprof"
    [] t = GoroutineWaitProfile -> "goroutineswait.pprof"
    [] t = MetricsProfile -> "metrics.json"
    [] OTHER -> "unknown"

\* func (t ProfileType) Tag() string: fmt.Sprintf("profile_type:%s", t)
Tag(t) == "profile_type:" \o String(t)

(***************************************************************************)
(* Values shared by the strategies.                                        *)
(***************************************************************************)
NoErr == "<nil>"
CaptureErrs == {"profile not found", "write failed"}
ErrNotImplemented == "profile type not implemented"
ErrMarshal == "marshalGoroutineDebug2Profile: invalid profile"
MetricName == "datadog.profiler.go.collect_time"

\* *profile: nil, or &profile{name, data}
NilProfile == [isNil |-> TRUE, name |-> "", data |-> ""]
NewProfile(n, d) == [isNil |-> FALSE, name |-> n, data |-> d]

\* The tag constant each strategy passes to append (one line per strategy).
StrategyTag(t) ==
  CASE t = HeapProfile -> Tag(HeapProfile)
    [] t = CPUProfile -> Tag(CPUProfile)
    [] t = BlockProfile -> Tag(BlockProfile)
    [] t = MutexProfile -> Tag(MutexProfile)
    [] t = GoroutineProfile -> Tag(GoroutineProfile)
    [] t = GoroutineWaitProfile -> Tag(GoroutineWaitProfile)
    [] t = MetricsProfile -> Tag(MetricsProfile)

\* The name each strategy gives the profile it returns.
StrategyFilename(t) ==
  CASE t = HeapProfile -> Filename(HeapProfile)
    [] t = CPUProfile -> Filename(CPUProfile)
    [] t = BlockProfile -> Filename(BlockProfile)
    [] t = MutexProfile -> Filename(MutexProfile)
    [] t = GoroutineProfile -> Filename(GoroutineProfile)
    [] t = GoroutineWaitProfile -> Filename(GoroutineWaitProfile)
    [] t = MetricsProfile -> Filename(MetricsProfile)

\* The strategies that capture through lookupProfile.
LookupTypes == {BlockProfile, MutexProfile, GoroutineProfile, GoroutineWaitProfile}

\* First argument of lookupProfile in each of them.
LookupName(t) ==
  CASE t = BlockProfile -> String(BlockProfile)
    [] t = MutexProfile -> String(MutexProfile)
    [] t = GoroutineProfile -> String(GoroutineProfile)
    [] t = GoroutineWaitProfile -> String(GoroutineProfile)

\* Third argument of lookupProfile in each of them.
LookupDebug(t) == IF t = GoroutineWaitProfile THEN 2 ELSE 0

(***************************************************************************)
(* Bounds of the dispatcher model.                                         *)
(***************************************************************************)
\* Longest configured static tag list.
MaxStaticTags == 1
\* Largest spare capacity (cap - len) of the array behind cfg.tags.
MaxSpare == 1
\* Number of runProfile calls made in one behaviour.
MaxCalls == 2
\* Largest configured cpuDuration, in clock units.
MaxCPUDuration == 1
\* The wall clock stops being advanced by the environment at this value.
MaxClock == 1

\* The goroutines that may call runProfile.
Callers == {"c1", "c2"}
\* The single scheduling loop of a sequential collection cycle.
MainCaller == "c1"

NoStrategy == HeapProfile - 1

VARIABLES
  cfgLen,      \* len(cfg.tags)
  backing,     \* the array behind cfg.tags, cap(cfg.tags) slots
  cpuDuration, \* cfg.cpuDuration
  clock,       \* time.Now()
  cpuOwner,    \* the caller whose CPU capture is running in the runtime, or ""
  calls,       \* number of runProfile calls made so far
  pc,          \* position of each caller inside runProfile / its strategy
  typ,         \* argument t of the call
  strat,       \* the strategy the switch selected, named by its ProfileType
  start,       \* local start
  end,         \* local end
  ltags,       \* local tags, the slice append returned
  primErr,     \* the error the capture primitive returned in this call
  result,      \* what runProfile returned: [prof, err]
  trace,       \* the calls made by the current invocation, in order
  statsd,      \* the Timing metrics the statsd client received from the invocation
  goroutines,  \* input of goroutineDebug2ToPprof: the parsed records
  errs,        \* input of goroutineDebug2ToPprof: the parser's error list
  bpc,         \* position of the conversion
  prof         \* the pprofile.Profile the conversion built

dvars == <<cfgLen, backing, cpuDuration, clock, cpuOwner, calls, pc, typ, strat,
           start, end, ltags, primErr, result, trace, statsd>>
bvars == <<goroutines, errs, bpc, prof>>
vars == <<cfgLen, backing, cpuDuration, clock, cpuOwner, calls, pc, typ, strat,
          start, end, ltags, primErr, result, trace, statsd,
          goroutines, errs, bpc, prof>>

StaticTag(i) == "static:" \o ToString(i)

\* What a reader of cfg.tags sees: the first len slots of its array.
CfgTags == SubSeq(backing, 1, cfgLen)

\* One entry of trace: a call of a primitive and, for lookupProfile, its arguments.
Ev(e) == [ev |-> e, name |-> "", debug |-> 0]
LookupEv(n, d) == [ev |-> "lookupProfile", name |-> n, debug |-> d]

NoResult == [prof |-> NilProfile, err |-> NoErr]
NoTags == [shared |-> FALSE, len |-> 0, own |-> <<>>]

\* The contents of a local slice: of cfg.tags' array when it shares it.
SliceTags(sl) == IF sl.shared THEN SubSeq(backing, 1, sl.len) ELSE sl.own

\* The switch of runProfile with a default that falls back to the heap strategy.
DispatchDefaultHeap(t) == IF t \in Supported THEN t ELSE HeapProfile

\* The switch of runProfile: the strategy each ProfileType is routed to.
Dispatch(t) ==
  CASE t = HeapProfile -> HeapProfile
    [] t = CPUProfile -> CPUProfile
    [] t = MutexProfile -> MutexProfile
    [] t = BlockProfile -> BlockProfile
    [] t = GoroutineProfile -> GoroutineProfile
    [] t = GoroutineWaitProfile -> GoroutineWaitProfile
    [] t = MetricsProfile -> MetricsProfile
    [] OTHER -> NoStrategy

DInit ==
  /\ cfgLen \in 0..MaxStaticTags
  /\ \E spare \in 0..MaxSpare :
       backing = [i \in 1..(cfgLen + spare) |-> IF i <= cfgLen THEN StaticTag(i) ELSE ""]
  /\ cpuDuration \in 0..MaxCPUDuration
  /\ clock = 0
  /\ cpuOwner = ""
  /\ calls = 0
  /\ pc = [p \in Callers |-> "idle"]
  /\ typ = [p \in Callers |-> HeapProfile]
  /\ strat = [p \in Callers |-> NoStrategy]
  /\ start = [p \in Callers |-> 0]
  /\ end = [p \in Callers |-> 0]
  /\ ltags = [p \in Callers |-> NoTags]
  /\ primErr = [p \in Callers |-> NoErr]
  /\ result = [p \in Callers |-> NoResult]
  /\ trace = [p \in Callers |-> <<>>]
  /\ statsd = [p \in Callers |-> <<>>]

\* The state in which no conversion is under way.
BIdle ==
  /\ goroutines = <<>>
  /\ errs = <<>>
  /\ bpc = "off"
  /\ prof = <<>>

Init == DInit /\ BIdle

\* An early return that wraps the primitive's error.
FailWrapped(p, e, err) ==
  /\ primErr' = [primErr EXCEPT ![p] = err]
  /\ result' = [result EXCEPT ![p] = [prof |-> NilProfile, err |-> "capture: " \o err]]
  /\ trace' = [trace EXCEPT ![p] = Append(@, e)]
  /\ pc' = [pc EXCEPT ![p] = "done"]
  /\ UNCHANGED <<end, cpuOwner, clock>>

\* A strategy's early return: return nil, err
Fail(p, e, err) ==
  /\ primErr' = [primErr EXCEPT ![p] = err]
  /\ result' = [result EXCEPT ![p] = [prof |-> NilProfile, err |-> err]]
  /\ trace' = [trace EXCEPT ![p] = Append(@, e)]
  /\ pc' = [pc EXCEPT ![p] = "done"]
  /\ UNCHANGED <<end, cpuOwner, clock>>

\* The capture succeeded: end := now()
Captured(p, e) ==
  /\ trace' = [trace EXCEPT ![p] = Append(@, e)]
  /\ end' = [end EXCEPT ![p] = clock]
  /\ pc' = [pc EXCEPT ![p] = "append"]
  /\ UNCHANGED <<primErr, result, cpuOwner, clock>>

\* runProfile(t): the switch and, in the strategy it selects, start := now()
Call(p, t) ==
  /\ pc[p] \in {"idle", "done"}
  /\ calls < MaxCalls
  /\ calls' = calls + 1
  /\ typ' = [typ EXCEPT ![p] = t]
  /\ strat' = [strat EXCEPT ![p] = Dispatch(t)]
  /\ trace' = [trace EXCEPT ![p] = <<>>]
  /\ statsd' = [statsd EXCEPT ![p] = <<>>]
  /\ primErr' = [primErr EXCEPT ![p] = NoErr]
  /\ ltags' = [ltags EXCEPT ![p] = NoTags]
  /\ end' = [end EXCEPT ![p] = 0]
  /\ IF Dispatch(t) = NoStrategy
       THEN /\ result' = [result EXCEPT ![p] = [prof |-> NilProfile, err |-> ErrNotImplemented]]
            /\ pc' = [pc EXCEPT ![p] = "done"]
            /\ start' = [start EXCEPT ![p] = 0]
       ELSE /\ result' = [result EXCEPT ![p] = NoResult]
            /\ pc' = [pc EXCEPT ![p] = "capture"]
            /\ start' = [start EXCEPT ![p] = clock]
  /\ UNCHANGED <<cfgLen, backing, cpuDuration, clock, cpuOwner>>
  /\ UNCHANGED bvars

\* heapProfile: writeHeapProfile(&buf)
WriteHeap(p) ==
  /\ pc[p] = "capture" /\ strat[p] = HeapProfile
  /\ \E err \in CaptureErrs \cup {NoErr} :
       IF err # NoErr THEN Fail(p, Ev("writeHeapProfile"), err)
                      ELSE Captured(p, Ev("writeHeapProfile"))
  /\ UNCHANGED <<cfgLen, backing, cpuDuration, calls, typ, strat, start, ltags, statsd>>
  /\ UNCHANGED bvars

\* blockProfile, mutexProfile, goroutineProfile, goroutineWaitProfile:
\* lookupProfile(name, &buf, debug)
Lookup(p) ==
  /\ pc[p] = "capture" /\ strat[p] \in LookupTypes
  /\ LET e == LookupEv(LookupName(strat[p]), LookupDebug(strat[p])) IN
     \E err \in CaptureErrs \cup {NoErr} :
       IF err # NoErr THEN Fail(p, e, err)
       ELSE IF strat[p] = GoroutineWaitProfile
         THEN /\ trace' = [trace EXCEPT ![p] = Append(@, e)]
              /\ pc' = [pc EXCEPT ![p] = "convert"]
              /\ UNCHANGED <<primErr, result, end, cpuOwner, clock>>
         ELSE Captured(p, e)
  /\ UNCHANGED <<cfgLen, backing, cpuDuration, calls, typ, strat, start, ltags, statsd>>
  /\ UNCHANGED bvars

\* goroutineWaitProfile: goroutineDebug2ToPprof(text, pprof) and its outcome
Convert(p) ==
  /\ pc[p] = "convert"
  /\ \E err \in {ErrMarshal, NoErr} :
       IF err # NoErr
         THEN /\ result' = [result EXCEPT ![p] = [prof |-> NilProfile, err |-> err]]
              /\ trace' = [trace EXCEPT ![p] = Append(@, Ev("goroutineDebug2ToPprof"))]
              /\ pc' = [pc EXCEPT ![p] = "done"]
              /\ UNCHANGED <<primErr, end, cpuOwner, clock>>
         ELSE Captured(p, Ev("goroutineDebug2ToPprof"))
  /\ UNCHANGED <<cfgLen, backing, cpuDuration, calls, typ, strat, start, ltags, statsd>>
  /\ UNCHANGED bvars

\* collectMetrics: p.met.report(start, &buf)
Report(p) ==
  /\ pc[p] = "capture" /\ strat[p] = MetricsProfile
  /\ \E err \in CaptureErrs \cup {NoErr} :
       IF err # NoErr THEN Fail(p, Ev("report"), err)
                      ELSE Captured(p, Ev("report"))
  /\ UNCHANGED <<cfgLen, backing, cpuDuration, calls, typ, strat, start, ltags, statsd>>
  /\ UNCHANGED bvars

\* cpuProfile with the error of startCPUProfile ignored.
StartCPUIgnoreErr(p) ==
  /\ pc[p] = "capture" /\ strat[p] = CPUProfile
  /\ \E err \in CaptureErrs \cup {NoErr} :
       /\ (cpuOwner # "" => err # NoErr)
       /\ primErr' = [primErr EXCEPT ![p] = err]
       /\ cpuOwner' = IF err = NoErr THEN p ELSE cpuOwner
  /\ trace' = [trace EXCEPT ![p] = Append(@, Ev("startCPUProfile"))]
  /\ pc' = [pc EXCEPT ![p] = "sleep"]
  /\ UNCHANGED <<result, end, clock>>
  /\ UNCHANGED <<cfgLen, backing, cpuDuration, calls, typ, strat, start, ltags, statsd>>
  /\ UNCHANGED bvars

\* cpuProfile: startCPUProfile(&buf). The runtime runs one CPU capture at a
\* time: a start while one is running returns an error.
StartCPU(p) ==
  /\ pc[p] = "capture" /\ strat[p] = CPUProfile
  /\ \E err \in CaptureErrs \cup {NoErr} :
       /\ (cpuOwner # "" => err # NoErr)
       /\ IF err # NoErr
            THEN Fail(p, Ev("startCPUProfile"), err)
            ELSE /\ trace' = [trace EXCEPT ![p] = Append(@, Ev("startCPUProfile"))]
                 /\ cpuOwner' = p
                 /\ pc' = [pc EXCEPT ![p] = "sleep"]
                 /\ UNCHANGED <<primErr, result, end, clock>>
  /\ UNCHANGED <<cfgLen, backing, cpuDuration, calls, typ, strat, start, ltags, statsd>>
  /\ UNCHANGED bvars

\* cpuProfile: time.Sleep(cfg.cpuDuration)
SleepCPU(p) ==
  /\ pc[p] = "sleep"
  /\ clock' = clock + cpuDuration
  /\ trace' = [trace EXCEPT ![p] = Append(@, Ev("Sleep"))]
  /\ pc' = [pc EXCEPT ![p] = "stop"]
  /\ UNCHANGED <<cfgLen, backing, cpuDuration, cpuOwner, calls, typ, strat, start,
                 end, ltags, primErr, result, statsd>>
  /\ UNCHANGED bvars

\* cpuProfile: stopCPUProfile(); end := now()
StopCPU(p) ==
  /\ pc[p] = "stop"
  /\ cpuOwner' = ""
  /\ trace' = [trace EXCEPT ![p] = Append(@, Ev("stopCPUProfile"))]
  /\ end' = [end EXCEPT ![p] = clock]
  /\ pc' = [pc EXCEPT ![p] = "append"]
  /\ UNCHANGED <<cfgLen, backing, cpuDuration, clock, calls, typ, strat, start,
                 ltags, primErr, result, statsd>>
  /\ UNCHANGED bvars

\* append storing the new element over the last of the n elements.
StoreAtLast(arr, n, x) == IF n = 0 THEN arr ELSE [arr EXCEPT ![n] = x]

\* append(s, x) with len(s) = n < cap(s): x is stored in slot n of the array
\* (slot n+1 counting from 1), the array is not copied.
StoreInPlace(arr, n, x) == [arr EXCEPT ![n + 1] = x]

\* The slice append(s, x) returns: over the array of s when x fits in it,
\* otherwise over a new array holding a copy of s followed by x.
AppendSlice(arr, n, x) ==
  IF n < Len(arr)
    THEN [shared |-> TRUE, len |-> n + 1, own |-> <<>>]
    ELSE [shared |-> FALSE, len |-> n + 1, own |-> Append(SubSeq(arr, 1, n), x)]

\* every strategy: tags := append(cfg.tags, <its type>.Tag())
AppendTags(p) ==
  /\ pc[p] = "append"
  /\ backing' = IF cfgLen < Len(backing)
                  THEN StoreInPlace(backing, cfgLen, StrategyTag(strat[p]))
                  ELSE backing
  /\ ltags' = [ltags EXCEPT ![p] = AppendSlice(backing, cfgLen, StrategyTag(strat[p]))]
  /\ pc' = [pc EXCEPT ![p] = "timing"]
  /\ UNCHANGED <<cfgLen, cpuDuration, clock, cpuOwner, calls, typ, strat, start, end,
                 primErr, result, trace, statsd>>
  /\ UNCHANGED bvars

\* The metric a strategy reports: name, value, tags as read now, rate.
Metric(p) ==
  [name |-> MetricName, value |-> end[p] - start[p],
   tags |-> SliceTags(ltags[p]), rate |-> 1]

\* every strategy: cfg.statsd.Timing(...); return &profile{name, data}, nil
Timing(p) ==
  /\ pc[p] = "timing"
  /\ statsd' = [statsd EXCEPT ![p] = Append(@, Metric(p))]
  /\ trace' = [trace EXCEPT ![p] = @ \o <<Ev("Timing"), Ev("return")>>]
  /\ result' = [result EXCEPT ![p] =
                  [prof |-> NewProfile(StrategyFilename(strat[p]), "buf"), err |-> NoErr]]
  /\ pc' = [pc EXCEPT ![p] = "done"]
  /\ UNCHANGED <<cfgLen, backing, cpuDuration, clock, cpuOwner, calls, typ, strat,
                 start, end, ltags, primErr>>
  /\ UNCHANGED bvars

\* Time passes while an invocation is under way.
Tick ==
  /\ clock < MaxClock
  /\ \E p \in Callers : pc[p] \notin {"idle", "done"}
  /\ clock' = clock + 1
  /\ UNCHANGED <<cfgLen, backing, cpuDuration, cpuOwner, calls, pc, typ, strat, start,
                 end, ltags, primErr, result, trace, statsd>>
  /\ UNCHANGED bvars

\* One scheduling loop calls runProfile, one call after the other.
Next ==
  \/ \E t \in TypeInputs : Call(MainCaller, t)
  \/ WriteHeap(MainCaller)
  \/ StartCPU(MainCaller)
  \/ SleepCPU(MainCaller)
  \/ StopCPU(MainCaller)
  \/ Lookup(MainCaller)
  \/ Convert(MainCaller)
  \/ Report(MainCaller)
  \/ AppendTags(MainCaller)
  \/ Timing(MainCaller)
  \/ Tick

Spec == Init /\ [][Next]_vars

\* Two goroutines call runProfile on the same config, once each.
NextConc ==
  \/ \E p \in Callers, t \in TypeInputs : pc[p] = "idle" /\ Call(p, t)
  \/ \E p \in Callers : WriteHeap(p)
  \/ \E p \in Callers : StartCPU(p)
  \/ \E p \in Callers : SleepCPU(p)
  \/ \E p \in Callers : StopCPU(p)
  \/ \E p \in Callers : Lookup(p)
  \/ \E p \in Callers : Convert(p)
  \/ \E p \in Callers : Report(p)
  \/ \E p \in Callers : AppendTags(p)
  \/ \E p \in Callers : Timing(p)
  \/ Tick

SpecConc == Init /\ [][NextConc]_vars

(***************************************************************************)
(* goroutineDebug2ToPprof: parsed goroutine records to a pprofile.Profile. *)
(* Pointers are positions: a *Function is the index of the entry in        *)
(* p.Function, a *Location its index in p.Location, m is index 1 of        *)
(* p.Mapping.                                                              *)
(***************************************************************************)
\* Most records the parser returns.
MaxTasks == 2
\* Longest stack of a record.
MaxFrames == 2
\* Most errors the parser returns.
MaxErrs == 2

SeqsUpTo(S, n) == UNION {[1..k -> S] : k \in 0..n}

FrameInputs ==
  {[Func |-> "main.worker", File |-> "/a/b.go", Line |-> 10],
   [Func |-> "main.run", File |-> "/a/c.go", Line |-> 20]}
\* The id, state, wait (in nanoseconds) and truncation flag of a record.
HeaderInputs ==
  {[ID |-> 7, State |-> "chan receive", Wait |-> 300, FramesElided |-> FALSE],
   [ID |-> 8, State |-> "select", Wait |-> 0, FramesElided |-> TRUE]}
\* stackparse.Goroutine
GoroutineInputs ==
  {[ID |-> h.ID, State |-> h.State, Wait |-> h.Wait, Stack |-> st,
    FramesElided |-> h.FramesElided] :
     h \in HeaderInputs, st \in SeqsUpTo(FrameInputs, MaxFrames)}
\* The text of the i-th error of the parser.
ErrText(i) == "parse error " \o ToString(i)
\* *stackparse.Errors: nil, or a list of errors
ErrsInputs ==
  {[isNil |-> TRUE, Errors |-> <<>>]} \cup
  {[isNil |-> FALSE, Errors |-> [i \in 1..k |-> ErrText(i)]] : k \in 0..MaxErrs}

ElidedFunc == "...additional frames elided..."

\* &stackparse.Frame{Func: "...additional frames elided..."}
ElidedFrame == [Func |-> ElidedFunc, File |-> "", Line |-> 0]

\* if g.FramesElided { g.Stack = append(g.Stack, ...) }
StackOf(g) == IF g.FramesElided THEN Append(g.Stack, ElidedFrame) ELSE g.Stack

\* time.Duration.Nanoseconds(): a Duration is a count of nanoseconds
Nanoseconds(d) == d

\* sample.Location = append([]*pprofile.Location{location}, sample.Location...)
InsertLocation(loc, locs) == <<loc>> \o locs

\* sample := &pprofile.Sample{...}
NewSample(g) ==
  [Value |-> <<Nanoseconds(g.Wait)>>,
   Label |-> [state |-> <<g.State>>],
   NumUnit |-> [goid |-> <<"id">>],
   NumLabel |-> [goid |-> <<g.ID>>],
   Location |-> <<>>]

\* The body of the inner loop with locationID++ left out.
AddFrameSameID(st, call) ==
  LET function == [ID |-> st.functionID, Name |-> call.Func, Filename |-> call.File]
      funcs == Append(st.Function, function)
      location == [ID |-> st.locationID, Mapping |-> 1,
                   Line |-> <<[Function |-> Len(funcs), Line |-> call.Line]>>]
      locs == Append(st.Location, location)
  IN [Function |-> funcs, Location |-> locs,
      functionID |-> st.functionID + 1, locationID |-> st.locationID,
      sample |-> [st.sample EXCEPT !.Location = InsertLocation(Len(locs), @)]]

\* The body of   for _, call := range g.Stack { ... }
AddFrame(st, call) ==
  LET function == [ID |-> st.functionID, Name |-> call.Func, Filename |-> call.File]
      funcs == Append(st.Function, function)
      location == [ID |-> st.locationID, Mapping |-> 1,
                   Line |-> <<[Function |-> Len(funcs), Line |-> call.Line]>>]
      locs == Append(st.Location, location)
  IN [Function |-> funcs, Location |-> locs,
      functionID |-> st.functionID + 1, locationID |-> st.locationID + 1,
      sample |-> [st.sample EXCEPT !.Location = InsertLocation(Len(locs), @)]]

RECURSIVE AddFrames(_, _, _)
\* for _, call := range g.Stack, from frame i on
AddFrames(st, stack, i) ==
  IF i > Len(stack) THEN st ELSE AddFrames(AddFrame(st, stack[i]), stack, i + 1)

\* The body of the outer loop with the sample put in front of p.Sample.
AddGoroutineInFront(b, g) ==
  LET st == AddFrames([Function |-> b.Function, Location |-> b.Location,
                       functionID |-> b.functionID, locationID |-> b.locationID,
                       sample |-> NewSample(g)], StackOf(g), 1)
  IN [Function |-> st.Function, Location |-> st.Location,
      functionID |-> st.functionID, locationID |-> st.locationID,
      Sample |-> <<st.sample>> \o b.Sample]

\* The body of   for _, g := range goroutines { ... }
AddGoroutine(b, g) ==
  LET st == AddFrames([Function |-> b.Function, Location |-> b.Location,
                       functionID |-> b.functionID, locationID |-> b.locationID,
                       sample |-> NewSample(g)], StackOf(g), 1)
  IN [Function |-> st.Function, Location |-> st.Location,
      functionID |-> st.functionID, locationID |-> st.locationID,
      Sample |-> Append(b.Sample, st.sample)]

RECURSIVE AddGoroutines(_, _, _)
\* for _, g := range goroutines, from record i on
AddGoroutines(b, gs, i) ==
  IF i > Len(gs) THEN b ELSE AddGoroutines(AddGoroutine(b, gs[i]), gs, i + 1)

\* if errs != nil { for ... p.Comments = append(p.Comments, "error: "+err.Error()) }
CommentsOf(es) ==
  IF es.isNil THEN <<>> ELSE [i \in 1..Len(es.Errors) |-> "error: " \o es.Errors[i]]

\* The profile built before p.CheckValid()
BuildProfile(gs, es) ==
  LET b == AddGoroutines([Function |-> <<>>, Location |-> <<>>,
                          functionID |-> 1, locationID |-> 1, Sample |-> <<>>], gs, 1)
  IN [Mapping |-> <<[ID |-> 1, HasFunctions |-> TRUE]>>,
      SampleType |-> <<[Type |-> "waitduration", Unit |-> "nanoseconds"]>>,
      Function |-> b.Function,
      Location |-> b.Location,
      Sample |-> b.Sample,
      Comments |-> CommentsOf(es)]

IsSet(s) == \A i, j \in DOMAIN s : s[i] = s[j] => i = j

\* p.CheckValid(): samples carry one value per sample type and reference
\* locations of the table; mapping, function and location ids are non-zero
\* and unique; every line references a function of the table.
CheckValid(p) ==
  /\ \A i \in DOMAIN p.Sample :
       /\ Len(p.Sample[i].Value) = Len(p.SampleType)
       /\ \A k \in DOMAIN p.Sample[i].Location :
            p.Sample[i].Location[k] \in DOMAIN p.Location
  /\ \A i \in DOMAIN p.Mapping : p.Mapping[i].ID # 0
  /\ IsSet([i \in DOMAIN p.Mapping |-> p.Mapping[i].ID])
  /\ \A i \in DOMAIN p.Function : p.Function[i].ID # 0
  /\ IsSet([i \in DOMAIN p.Function |-> p.Function[i].ID])
  /\ \A i \in DOMAIN p.Location :
       /\ p.Location[i].ID # 0
       /\ p.Location[i].Mapping \in DOMAIN p.Mapping
       /\ \A k \in DOMAIN p.Location[i].Line :
            p.Location[i].Line[k].Function \in DOMAIN p.Function
  /\ IsSet([i \in DOMAIN p.Location |-> p.Location[i].ID])

\* goroutineDebug2ToPprof(r, w) once the parser returned gs and es; werr is
\* what p.Write(w) returns. The result: the profile built, whether it was
\* written to w, and the error returned.
goroutineDebug2ToPprof(gs, es, werr) ==
  LET p == BuildProfile(gs, es) IN
  IF ~CheckValid(p) THEN [p |-> p, written |-> FALSE, err |-> ErrMarshal]
  ELSE IF werr # NoErr
    THEN [p |-> p, written |-> FALSE, err |-> "marshalGoroutineDebug2Profile: " \o werr]
    ELSE [p |-> p, written |-> TRUE, err |-> NoErr]

\* The dispatcher at rest while a conversion is studied on its own.
DIdle ==
  /\ cfgLen = 0
  /\ backing = <<>>
  /\ cpuDuration = 0
  /\ clock = 0
  /\ cpuOwner = ""
  /\ calls = 0
  /\ pc = [c \in Callers |-> "idle"]
  /\ typ = [c \in Callers |-> HeapProfile]
  /\ strat = [c \in Callers |-> NoStrategy]
  /\ start = [c \in Callers |-> 0]
  /\ end = [c \in Callers |-> 0]
  /\ ltags = [c \in Callers |-> NoTags]
  /\ primErr = [c \in Callers |-> NoErr]
  /\ result = [c \in Callers |-> NoResult]
  /\ trace = [c \in Callers |-> <<>>]
  /\ statsd = [c \in Callers |-> <<>>]

InitBuild ==
  /\ DIdle
  /\ goroutines \in SeqsUpTo(GoroutineInputs, MaxTasks)
  /\ errs \in ErrsInputs
  /\ bpc = "parsed"
  /\ prof = <<>>

\* One run of goroutineDebug2ToPprof on the parsed input.
Build ==
  /\ bpc = "parsed"
  /\ \E werr \in {NoErr, "write failed"} :
       prof' = <<goroutineDebug2ToPprof(goroutines, errs, werr)>>
  /\ bpc' = "built"
  /\ UNCHANGED <<goroutines, errs>>
  /\ UNCHANGED dvars

NextBuild == Build

SpecBuild == InitBuild /\ [][NextBuild]_vars

(***************************************************************************)
(* Properties of the dispatcher and the strategies.                        *)
(***************************************************************************)
\* The configured static tags, as set at construction.
StaticTags == [i \in 1..cfgLen |-> StaticTag(i)]

\* The positions of event e in a trace.
Idx(tr, e) == {i \in DOMAIN tr : tr[i].ev = e}

CaptureEvs == {"writeHeapProfile", "startCPUProfile", "Sleep", "stopCPUProfile",
               "lookupProfile", "goroutineDebug2ToPprof", "report"}

Succeeded(p) == pc[p] = "done" /\ typ[p] \in Supported /\ result[p].err = NoErr

\* C1: a runProfile call with a ProfileType outside the seven supported ones
\* returns a nil profile and a non-nil error, having invoked no capture
\* primitive and emitted no timing metric.
C1_UnsupportedFails ==
  \A p \in Callers :
    typ[p] \notin Supported =>
      /\ pc[p] = "done"
      /\ result[p].prof.isNil
      /\ result[p].err # NoErr
      /\ trace[p] = <<>>
      /\ statsd[p] = <<>>

C1_Witness ==
  \E p \in Callers : typ[p] \notin Supported /\ pc[p] = "done" /\ calls = MaxCalls

\* C2: when the capture primitive of a strategy returns an error, the
\* strategy returns a nil profile with exactly that error, and the
\* invocation emits no timing metric.
C2_ErrorSurfaced ==
  \A p \in Callers :
    primErr[p] # NoErr =>
      /\ pc[p] = "done"
      /\ result[p].prof.isNil
      /\ result[p].err = primErr[p]
      /\ statsd[p] = <<>>
      /\ Idx(trace[p], "Timing") = {}

C2_Witness ==
  \E p \in Callers :
    /\ strat[p] = GoroutineWaitProfile
    /\ primErr[p] = "profile not found"
    /\ pc[p] = "done"

\* C3: a runProfile(t) call that succeeds has emitted exactly one timing
\* metric, after the capture completed, named datadog.profiler.go.collect_time,
\* with rate 1 and tags = the static tags followed by Tag(t); no invocation
\* emits more than one; the caller's view of cfg.tags never changes.
C3_OneMetricOwnTag ==
  /\ CfgTags = StaticTags
  /\ \A p \in Callers :
       /\ Len(statsd[p]) <= 1
       /\ Succeeded(p) =>
            /\ Len(statsd[p]) = 1
            /\ statsd[p][1].name = "datadog.profiler.go.collect_time"
            /\ statsd[p][1].rate = 1
            /\ statsd[p][1].tags = Append(StaticTags, "profile_type:" \o String(typ[p]))
            /\ Cardinality(Idx(trace[p], "Timing")) = 1
            /\ \A i \in Idx(trace[p], "Timing"), j \in DOMAIN trace[p] :
                 trace[p][j].ev \in CaptureEvs => j < i

\* A second successful call on a tag list with one static tag and spare capacity.
C3_Witness ==
  /\ Succeeded(MainCaller)
  /\ calls = MaxCalls
  /\ cfgLen >= 1
  /\ Len(backing) > cfgLen
  /\ typ[MainCaller] = MutexProfile

\* The filenames the seven types are documented to have.
ExpectedFilename ==
  [t \in Supported |->
     CASE t = HeapProfile -> "heap.pprof"
       [] t = CPUProfile -> "cpu.pprof"
       [] t = BlockProfile -> "block.pprof"
       [] t = MutexProfile -> "mutex.pprof"
       [] t = GoroutineProfile -> "goroutines.pprof"
       [] t = GoroutineWaitProfile -> "goroutineswait.pprof"
       [] t = MetricsProfile -> "metrics.json"]

\* C4: Filename() is the documented table on the seven types, Tag() is
\* "profile_type:" followed by String(), out-of-range types answer "unknown"
\* and "profile_type:unknown", and a successful runProfile(t) returns a
\* profile named Filename(t).
C4_Registry ==
  /\ \A t \in TypeInputs :
       /\ t \in Supported => Filename(t) = ExpectedFilename[t]
       /\ Tag(t) = "profile_type:" \o String(t)
       /\ t \notin Supported =>
            /\ String(t) = "unknown"
            /\ Filename(t) = "unknown"
            /\ Tag(t) = "profile_type:unknown"
  /\ \A p \in Callers :
       Succeeded(p) =>
         /\ ~result[p].prof.isNil
         /\ result[p].prof.name = ExpectedFilename[typ[p]]
         /\ result[p].prof.name = Filename(typ[p])

C4_Witness == Succeeded(MainCaller) /\ typ[MainCaller] = GoroutineProfile

\* C9: a cpuProfile invocation goes start, hold, stop, metric, return. When
\* start succeeds, stop is called once, before the metric and the return, for
\* every configured duration, and the result is a non-nil profile named
\* cpu.pprof; when start fails there is no stop, no hold and no metric, so
\* the invocation about to stop is always the one owning the running capture.
C9_CPUOrder ==
  \A p \in Callers :
    strat[p] = CPUProfile =>
      LET full == <<"startCPUProfile", "Sleep", "stopCPUProfile", "Timing", "return">>
          tr == trace[p]
      IN /\ Len(tr) <= Len(full)
         /\ \A i \in DOMAIN tr : tr[i].ev = full[i]
         /\ primErr[p] # NoErr =>
              /\ Len(tr) = 1
              /\ pc[p] = "done"
              /\ statsd[p] = <<>>
              /\ result[p].prof.isNil
         /\ pc[p] \in {"sleep", "stop"} => cpuOwner = p
         /\ (pc[p] = "done" /\ primErr[p] = NoErr) =>
              /\ Len(tr) = Len(full)
              /\ Len(statsd[p]) = 1
              /\ result[p].err = NoErr
              /\ ~result[p].prof.isNil
              /\ result[p].prof.name = "cpu.pprof"

\* A CPU invocation with duration 0 completed while the other caller's start failed.
C9_Witness ==
  \E p, q \in Callers :
    /\ p # q
    /\ cpuDuration = 0
    /\ strat[p] = CPUProfile /\ pc[p] = "done" /\ result[p].err = NoErr
    /\ strat[q] = CPUProfile /\ pc[q] = "done" /\ primErr[q] # NoErr

\* C10: with two invocations running concurrently on one config, every
\* invocation that succeeds has emitted a metric tagged with the static tags
\* followed by its own type's tag, and the caller's view of cfg.tags is
\* unchanged.
C10_OwnTagConcurrent ==
  /\ CfgTags = StaticTags
  /\ \A p \in Callers :
       Succeeded(p) =>
         /\ Len(statsd[p]) = 1
         /\ statsd[p][1].tags = Append(StaticTags, "profile_type:" \o String(typ[p]))

(***************************************************************************)
(* Properties of goroutineDebug2ToPprof.                                   *)
(***************************************************************************)
Built == bpc = "built"
Out == prof[1].p

\* The frame a sample's k-th location was built from, as (function, file, line).
FrameAt(i, k) ==
  LET loc == Out.Location[Out.Sample[i].Location[k]]
      fn == Out.Function[loc.Line[1].Function]
  IN [Func |-> fn.Name, File |-> fn.Filename, Line |-> loc.Line[1].Line]

\* Number of frames of the records from i on, elided markers included.
RECURSIVE TotalFrames(_, _)
TotalFrames(gs, i) ==
  IF i > Len(gs) THEN 0 ELSE Len(StackOf(gs[i])) + TotalFrames(gs, i + 1)

\* C5: in every sample, location k is the location built from frame k of the
\* record's stack: the locations are ordered innermost frame first.
C5_InnermostFirst ==
  Built =>
    \A i \in DOMAIN Out.Sample :
      /\ Len(Out.Sample[i].Location) = Len(StackOf(goroutines[i]))
      /\ \A k \in DOMAIN Out.Sample[i].Location :
           FrameAt(i, k) = StackOf(goroutines[i])[k]

\* C6: a record with framesElided and n frames gives a sample of n+1
\* locations whose last one is the "...additional frames elided..." function
\* with empty file and line 0; a record without framesElided gives n
\* locations, none of them the marker.
C6_ElidedLast ==
  Built =>
    \A i \in DOMAIN Out.Sample :
      LET n == Len(goroutines[i].Stack)
          locs == Out.Sample[i].Location
      IN IF goroutines[i].FramesElided
           THEN /\ Len(locs) = n + 1
                /\ FrameAt(i, n + 1) = [Func |-> "...additional frames elided...",
                                        File |-> "", Line |-> 0]
           ELSE /\ Len(locs) = n
                /\ \A k \in DOMAIN locs :
                     FrameAt(i, k).Func # "...additional frames elided..."

\* C7: records totalling F frames give F Function and F Location entries
\* (no deduplication), the k-th of each with ID k, each Location referencing
\* the Function of the same ID and the Mapping of ID 1, and every location of
\* a sample is an entry of the Location table.
C7_Identifiers ==
  Built =>
    LET F == TotalFrames(goroutines, 1) IN
    /\ Len(Out.Function) = F
    /\ Len(Out.Location) = F
    /\ Len(Out.Mapping) = 1
    /\ Out.Mapping[1].ID = 1
    /\ \A k \in 1..F :
         /\ Out.Function[k].ID = k
         /\ Out.Location[k].ID = k
         /\ Len(Out.Location[k].Line) = 1
         /\ Out.Function[Out.Location[k].Line[1].Function].ID = Out.Location[k].ID
         /\ Out.Mapping[Out.Location[k].Mapping].ID = 1
    /\ \A i \in DOMAIN Out.Sample :
         \A k \in DOMAIN Out.Sample[i].Location :
           Out.Sample[i].Location[k] \in DOMAIN Out.Location

\* Two records with the same two-frame stack: four functions, four locations.
C7_Witness ==
  /\ Built
  /\ Len(goroutines) = 2
  /\ goroutines[1].Stack = goroutines[2].Stack
  /\ Len(goroutines[1].Stack) = 2
  /\ goroutines[1].Stack[1] = goroutines[1].Stack[2]
  /\ Len(Out.Function) >= 4

\* C8: N records and K parse errors give N samples in input order, sample i
\* carrying the single value Wait of record i in nanoseconds, the label
\* state = [State] and the numeric label goid = [ID]; the K errors are the K
\* comments, in order; the conversion fails only when the write fails.
C8_Samples ==
  Built =>
    /\ Len(Out.Sample) = Len(goroutines)
    /\ \A i \in DOMAIN goroutines :
         /\ Out.Sample[i].Value = <<goroutines[i].Wait>>
         /\ Out.Sample[i].Label = [state |-> <<goroutines[i].State>>]
         /\ Out.Sample[i].NumLabel = [goid |-> <<goroutines[i].ID>>]
    /\ Len(Out.Comments) = Len(errs.Errors)
    /\ \A i \in DOMAIN errs.Errors : Out.Comments[i] = "error: " \o errs.Errors[i]
    /\ prof[1].err \in {NoErr, "marshalGoroutineDebug2Profile: write failed"}
    /\ prof[1].written <=> prof[1].err = NoErr

\* Two different records and two different parse errors, converted and written.
C8_Witness ==
  /\ Built
  /\ Len(goroutines) = 2
  /\ goroutines[1].ID # goroutines[2].ID
  /\ Len(errs.Errors) = 2
  /\ errs.Errors[1] # errs.Errors[2]
  /\ prof[1].written

====
